---- MODULE Spec2Model ----
(***************************************************************************)
(* A model of pytext's SquadTensorizer (pytext/data/squad_tensorizer.py):  *)
(* construction (from_config), the vocabulary pass (the initialize         *)
(* generator), numberize and tensorize.                                    *)
(*                                                                         *)
(* Text is a sequence of characters, a token is the sequence of its        *)
(* characters, a vocabulary is the sequence of its tokens (the id of a     *)
(* token is its position minus one).  Python objects whose identity        *)
(* matters (Vocabulary instances) live in heap; a reference is an index    *)
(* into heap and 0 is None.                                                *)
(***************************************************************************)
EXTENDS Integers, Sequences, FiniteSets, TLC

VARIABLES
    heap,           \* the Vocabulary objects allocated so far
    vocab,          \* SquadTensorizer.vocab
    docVocab,       \* doc_tensorizer.vocab
    quesVocab,      \* ques_tensorizer.vocab
    vocab_builder,  \* SquadTensorizer.vocab_builder (shared with both sub-initializers)
    gen,            \* where the initialize generator stands
    quesInit,       \* where ques_initializer stands
    docInit,        \* where doc_initializer stands
    passes,         \* initialize() calls made so far
    primed,         \* the current generator was started (send(None))
    nSent,          \* rows sent to the current generator
    offered,        \* tokens of both columns of every row sent to the current generator
    forwarded,      \* rows the current generator forwarded to the sub-initializers
    snap,           \* the tensorizer's fields when the current generator was started
    row,            \* the row given to numberize
    out,            \* what numberize returned
    batch,          \* the batch given to tensorize
    tens,           \* what tensorize returned
    pc              \* numberize / tensorize: "ready", "numberized", "tensorized" or the exception raised

vars == << heap, vocab, docVocab, quesVocab, vocab_builder, gen, quesInit, docInit,
           passes, primed, nSent, offered, forwarded, snap, row, out, batch, tens, pc >>

passVars == << heap, vocab, docVocab, quesVocab, vocab_builder, gen, quesInit, docInit,
               passes, primed, nSent, offered, forwarded, snap >>

(***************************************************************************)
(* Bounds of the model                                                     *)
(***************************************************************************)
MaxCorpusTextLen == 3   \* characters of a text of a corpus row (vocabulary pass)
MaxRows == 2            \* rows sent in one pass
MaxPasses == 2          \* initialize() calls
MaxTextLen == 5         \* characters of the document given to numberize
MaxAnswers == 2         \* answers of a row
MaxDocSeqLen == 2       \* Config.max_doc_seq_len of the modelled configuration
MaxQuesSeqLen == 1      \* Config.max_ques_seq_len of the modelled configuration
MaxBatch == 2           \* examples of a batch given to tensorize
MaxBatchSeqLen == 1     \* token ids of the document of a batch example

SPAN_PAD_IDX == -100

None == 0

Chars == {"a", " "}

Texts(n) == UNION {[1..k -> Chars] : k \in 0..n}

Min(a, b) == IF a < b THEN a ELSE b

Range(s) == {s[i] : i \in 1..Len(s)}

(***************************************************************************)
(* pytext.data.utils: the special symbols, Vocabulary, VocabBuilder        *)
(***************************************************************************)
PAD == <<"__PAD__">>
UNK == <<"__UNKNOWN__">>
BOS == <<"__BEGIN_OF_SENTENCE__">>
EOS == <<"__END_OF_SENTENCE__">>
MASK == <<"__MASK__">>

\* The id of token t in vocabulary v (a sequence of tokens), -1 when absent.
IndexOf(v, t) ==
    IF \E i \in 1..Len(v) : v[i] = t
    THEN (CHOOSE i \in 1..Len(v) : v[i] = t /\ \A j \in 1..(i-1) : v[j] # t) - 1
    ELSE -1

\* Vocabulary.get_pad_index / get_unk_index
GetPadIndex(v) == IndexOf(v, PAD)
GetUnkIndex(v) == IndexOf(v, UNK)

\* Vocabulary.lookup_all for one token: its id, the unknown id when absent.
Lookup(v, t) == IF IndexOf(v, t) >= 0 THEN IndexOf(v, t) ELSE GetUnkIndex(v)

\* VocabBuilder(): nothing counted yet, the builder's own default positions
\* for the special symbols.
NewVocabBuilder == [exists |-> TRUE, toks |-> <<>>, pad_index |-> 1, unk_index |-> 0]

NoVocabBuilder == [exists |-> FALSE, toks |-> <<>>, pad_index |-> 1, unk_index |-> 0]

\* VocabBuilder.add_all: count each token, a new token goes last.
RECURSIVE AddAll(_, _)
AddAll(toks, new) ==
    IF new = <<>> THEN toks
    ELSE AddAll(IF Head(new) \in Range(toks) THEN toks ELSE Append(toks, Head(new)),
                Tail(new))

\* list.insert(idx, x)
InsertAt(s, idx, x) ==
    LET k == Min(idx, Len(s))
    IN SubSeq(s, 1, k) \o <<x>> \o SubSeq(s, k + 1, Len(s))

\* VocabBuilder.make_vocab: the counted tokens in order of first appearance, the
\* special symbols inserted at their positions, lowest position first.
MakeVocab(b) ==
    IF b.pad_index <= b.unk_index
    THEN InsertAt(InsertAt(b.toks, b.pad_index, PAD), b.unk_index, UNK)
    ELSE InsertAt(InsertAt(b.toks, b.unk_index, UNK), b.pad_index, PAD)

(***************************************************************************)
(* pytext.data.tokenizers.Tokenizer(split_regex = \W+): the maximal runs   *)
(* of word characters, each with the offset of its first character and the *)
(* offset one past its last one (offsets count from 0).                    *)
(***************************************************************************)
IsSep(c) == c = " "

Token(text, start, end) ==
    IF start < end
    THEN << [value |-> SubSeq(text, start + 1, end), start |-> start, end |-> end] >>
    ELSE <<>>

RECURSIVE Scan(_, _, _)
Scan(text, i, start) ==
    IF i = Len(text) THEN Token(text, start, i)
    ELSE IF IsSep(text[i + 1]) THEN Token(text, start, i) \o Scan(text, i + 1, i + 1)
    ELSE Scan(text, i + 1, start)

Tokenize(text) == Scan(text, 0, 0)

TokenValues(text) == [i \in 1..Len(Tokenize(text)) |-> Tokenize(text)[i].value]

(***************************************************************************)
(* SquadTensorizer.from_config                                             *)
(***************************************************************************)
\* The token table of a WordPiece tokenizer (tokenizer.vocab), in its own order.
WordPieceTables ==
    { << <<"[PAD]">>, <<"[UNK]">>, <<"[CLS]">>, <<"[SEP]">>, <<"[MASK]">>, <<"a">> >>,
      << <<"[UNK]">>, <<"[PAD]">>, <<"a">>, <<"a", "a">> >> }

Replacement(t) ==
    CASE t = <<"[UNK]">> -> UNK
      [] t = <<"[PAD]">> -> PAD
      [] t = <<"[CLS]">> -> BOS
      [] t = <<"[SEP]">> -> EOS
      [] t = <<"[MASK]">> -> MASK
      [] OTHER -> t

\* Vocabulary(tokens, replacements = replacements)
VocabularyOf(table) == [i \in 1..Len(table) |-> Replacement(table[i])]

NoSnap == [vocab |-> None, docVocab |-> None, quesVocab |-> None,
           heap |-> <<>>, builder |-> NoVocabBuilder]

\* Fields of the numberize / tensorize steps while the vocabulary pass is modelled.
IdleRow == [doc |-> <<>>, question |-> <<>>, answers |-> <<>>, answer_starts |-> <<>>]
IdleOut == [doc_tokens |-> <<>>, doc_len |-> 0, ques_tokens |-> <<>>, ques_len |-> 0,
            answer_start |-> <<>>, answer_end |-> <<>>]

IdleData ==
    /\ row = IdleRow
    /\ out = IdleOut
    /\ batch = <<>>
    /\ tens = <<>>
    /\ pc = "ready"

\* from_config with a plain Tokenizer: vocab = None, handed to both
\* sub-tensorizers and to the SquadTensorizer itself.
FromConfigPlain ==
    /\ heap = <<>>
    /\ vocab = None
    /\ docVocab = None
    /\ quesVocab = None

\* from_config with a WordPieceTokenizer: one Vocabulary built from the
\* tokenizer's table, the same object handed to all three.
FromConfigWordPiece ==
    \E table \in WordPieceTables :
        /\ heap = << VocabularyOf(table) >>
        /\ vocab = 1
        /\ docVocab = 1
        /\ quesVocab = 1

Init ==
    /\ FromConfigPlain \/ FromConfigWordPiece
    /\ vocab_builder = NoVocabBuilder
    /\ gen = "none"
    /\ quesInit = "none"
    /\ docInit = "none"
    /\ passes = 0
    /\ primed = FALSE
    /\ nSent = 0
    /\ offered = {}
    /\ forwarded = 0
    /\ snap = NoSnap
    /\ IdleData

(***************************************************************************)
(* SquadTensorizer.initialize: the generator and its driver                *)
(***************************************************************************)
CorpusRows == [doc : Texts(MaxCorpusTextLen), question : Texts(MaxCorpusTextLen)]

\* `if not self.vocab`
NeedsBuildAlways(v) == TRUE
NeedsBuild(v) == v = None

\* self.vocab_builder = vocab_builder or VocabBuilder(); pad_index = 0; unk_index = 1
ConfiguredBuilder == [NewVocabBuilder EXCEPT !.pad_index = 0, !.unk_index = 1]

\* TokenTensorizer.initialize, one row received: the tokens of the tensorizer's
\* text column are added to the builder it was given.
SubInitializerSend(b, text) == [b EXCEPT !.toks = AddAll(b.toks, TokenValues(text))]

\* ques_initializer.send(row); doc_initializer.send(row)
ForwardRowQuesOnly(b, r) == SubInitializerSend(b, r.question)
ForwardRow(b, r) == SubInitializerSend(SubInitializerSend(b, r.question), r.doc)

\* initialize(): the generator object is made, its body has not run.
Initialize ==
    /\ gen \in {"none", "done"}
    /\ passes < MaxPasses
    /\ gen' = "created"
    /\ passes' = passes + 1
    /\ primed' = FALSE
    /\ quesInit' = "none"
    /\ docInit' = "none"
    /\ nSent' = 0
    /\ offered' = {}
    /\ forwarded' = 0
    /\ snap' = NoSnap
    /\ UNCHANGED << heap, vocab, docVocab, quesVocab, vocab_builder, row, out, batch, tens, pc >>

\* The driver's first send(None): the body runs to its first yield.
Prime ==
    /\ gen = "created"
    /\ primed' = TRUE
    /\ snap' = [vocab |-> vocab, docVocab |-> docVocab, quesVocab |-> quesVocab,
                heap |-> heap, builder |-> vocab_builder]
    /\ IF NeedsBuild(vocab)
       THEN /\ vocab_builder' = ConfiguredBuilder
            /\ quesInit' = "suspended"
            /\ docInit' = "suspended"
            /\ gen' = "awaitRow"
       ELSE /\ gen' = "noop"
            /\ UNCHANGED << vocab_builder, quesInit, docInit >>
    /\ UNCHANGED << heap, vocab, docVocab, quesVocab, passes, nSent, offered, forwarded,
                    row, out, batch, tens, pc >>

\* send(row): resumed at `row = yield` the row goes to both sub-initializers,
\* resumed at the bare `yield` it is dropped; the loop then suspends again.
SendRow ==
    /\ gen \in {"awaitRow", "noop"}
    /\ nSent < MaxRows
    /\ \E r \in CorpusRows :
        /\ nSent' = nSent + 1
        /\ offered' = offered \cup Range(TokenValues(r.doc)) \cup Range(TokenValues(r.question))
        /\ IF gen = "awaitRow"
           THEN /\ vocab_builder' = ForwardRow(vocab_builder, r)
                /\ forwarded' = forwarded + 1
           ELSE UNCHANGED << vocab_builder, forwarded >>
    /\ gen' = IF vocab # None THEN "noop" ELSE "awaitRow"
    /\ UNCHANGED << heap, vocab, docVocab, quesVocab, quesInit, docInit, passes, primed,
                    snap, row, out, batch, tens, pc >>

\* except GeneratorExit: if not self.vocab: self.vocab = self.vocab_builder.make_vocab()
\* The heap and the reference after the handler ran.
HandlerSkipsBuild(h, v, b) == [heap |-> h, vocab |-> v]
GeneratorExitHandler(h, v, b) ==
    IF NeedsBuild(v)
    THEN [heap |-> Append(h, MakeVocab(b)), vocab |-> Len(h) + 1]
    ELSE [heap |-> h, vocab |-> v]

\* TokenTensorizer.initialize closed: the sub-tensorizer builds its vocabulary
\* from the builder it was given.
SubFinalize(h, b) == [heap |-> Append(h, MakeVocab(b)), vocab |-> Len(h) + 1]

\* close(): an unstarted generator just ends; a suspended one runs its
\* GeneratorExit handler and returns, and its frame is released: the frame's
\* locals ques_initializer and doc_initializer held the only references to the
\* sub-initializers, which are closed in turn as they are released.
\* Whether the frame's release closes sub-initializers: it does when the
\* locals ques_initializer and doc_initializer were bound.
FrameKeepsSubInitializers(q) == FALSE
FrameReleasesSubInitializers(q) == q = "suspended"

Close ==
    /\ gen \in {"created", "awaitRow", "noop"}
    /\ gen' = "done"
    /\ IF gen = "created"
       THEN UNCHANGED << heap, vocab, docVocab, quesVocab, quesInit, docInit >>
       ELSE LET own == GeneratorExitHandler(heap, vocab, vocab_builder)
                q == SubFinalize(own.heap, vocab_builder)
                d == SubFinalize(q.heap, vocab_builder)
            IN /\ vocab' = own.vocab
               /\ IF FrameReleasesSubInitializers(quesInit)
                  THEN /\ quesInit' = "done"
                       /\ docInit' = "done"
                       /\ quesVocab' = q.vocab
                       /\ docVocab' = d.vocab
                       /\ heap' = d.heap
                  ELSE /\ heap' = own.heap
                       /\ UNCHANGED << quesInit, docInit, quesVocab, docVocab >>
    /\ UNCHANGED << vocab_builder, passes, primed, nSent, offered, forwarded, snap,
                    row, out, batch, tens, pc >>

Next == Initialize \/ Prime \/ SendRow \/ Close

Spec == Init /\ [][Next]_vars

(***************************************************************************)
(* SquadTensorizer.numberize                                               *)
(***************************************************************************)
\* TokenTensorizer._lookup_tokens: the first max_seq_len tokens of the text,
\* as ids of the tensorizer's vocabulary, with their character offsets.
LookupTokens(text, v, max_seq_len) ==
    LET all == Tokenize(text)
        n == Min(max_seq_len, Len(all))
    IN [tokens    |-> [i \in 1..n |-> Lookup(v, all[i].value)],
        start_idx |-> [i \in 1..n |-> all[i].start],
        end_idx   |-> [i \in 1..n |-> all[i].end]]

\* The dict built by `idx_map[offset] = token_idx` over enumerate(offsets), read
\* with idx_map.get(key, default): a later token with the same offset wins.
DictGet(offsets, key, default) ==
    IF \E i \in 1..Len(offsets) : offsets[i] = key
    THEN (CHOOSE i \in 1..Len(offsets) :
              offsets[i] = key /\ \A j \in (i+1)..Len(offsets) : offsets[j] # key) - 1
    ELSE default

\* answer_start_token_indices: one entry per answer start
AnswerStartsDefaultMinusOne(r, lk) ==
    [k \in 1..Len(r.answer_starts) |-> DictGet(lk.start_idx, r.answer_starts[k], -1)]
AnswerStartTokenIndices(r, lk) ==
    [k \in 1..Len(r.answer_starts) |->
        DictGet(lk.start_idx, r.answer_starts[k], SPAN_PAD_IDX)]

\* answer_end_token_indices: one entry per pair of zip(answer_starts, answers)
AnswerEndsWithoutLength(r, lk) ==
    [k \in 1..Min(Len(r.answer_starts), Len(r.answers)) |->
        DictGet(lk.end_idx, r.answer_starts[k], SPAN_PAD_IDX)]
AnswerEndTokenIndices(r, lk) ==
    [k \in 1..Min(Len(r.answer_starts), Len(r.answers)) |->
        DictGet(lk.end_idx, r.answer_starts[k] + Len(r.answers[k]), SPAN_PAD_IDX)]

\* _only_pad
OnlyPad(token_id_list) ==
    \A i \in 1..Len(token_id_list) : token_id_list[i] = SPAN_PAD_IDX

\* The condition of the `if` that normalises the span lists
CollapseIgnoresEnds(s, e) == ~(s # <<>> /\ e # <<>>) \/ OnlyPad(s)
ShouldCollapse(s, e) == ~(s # <<>> /\ e # <<>>) \/ OnlyPad(s) \/ OnlyPad(e)

\* The span lists numberize returns
SpansCollapseStartOnly(s, e) ==
    IF ShouldCollapse(s, e)
    THEN [answer_start |-> << SPAN_PAD_IDX >>, answer_end |-> e]
    ELSE [answer_start |-> s, answer_end |-> e]
Spans(s, e) ==
    IF ShouldCollapse(s, e)
    THEN [answer_start |-> << SPAN_PAD_IDX >>, answer_end |-> << SPAN_PAD_IDX >>]
    ELSE [answer_start |-> s, answer_end |-> e]

\* The body of numberize after its two assertions
NumberizeRow(r, qv, dv) ==
    LET ques == LookupTokens(r.question, qv, MaxQuesSeqLen)
        doc == LookupTokens(r.doc, dv, MaxDocSeqLen)
        sp == Spans(AnswerStartTokenIndices(r, doc), AnswerEndTokenIndices(r, doc))
    IN [doc_tokens |-> doc.tokens, doc_len |-> Len(doc.tokens),
        ques_tokens |-> ques.tokens, ques_len |-> Len(ques.tokens),
        answer_start |-> sp.answer_start, answer_end |-> sp.answer_end]

\* assert len(self.vocab) == len(self.ques_tensorizer.vocab)
\* assert len(self.vocab) == len(self.doc_tensorizer.vocab)
\* "TypeError" when one of them is None, which has no len().
NumberizeAsserts(h, v, qv, dv) ==
    IF v = None \/ qv = None \/ dv = None THEN "TypeError"
    ELSE IF Len(h[v]) # Len(h[qv]) \/ Len(h[v]) # Len(h[dv]) THEN "AssertionError"
    ELSE "ok"

\* The questions given to numberize: none, one word, more words than
\* max_ques_seq_len keeps.
QuesTexts == { <<>>, <<"a">>, <<"a", " ", "a", "a">> }

\* An answer of a row is the text found in the document at its start offset:
\* answer k is doc[s : s + n] for a start s and a length n >= 1 within the document.
AnswerPlaces(doc) == {p \in (0..Len(doc)) \X (1..Len(doc)) : p[1] + p[2] <= Len(doc)}

RowOf(doc, question, places) ==
    [doc |-> doc, question |-> question,
     answers |-> [k \in 1..Len(places) |->
                     SubSeq(doc, places[k][1] + 1, places[k][1] + places[k][2])],
     answer_starts |-> [k \in 1..Len(places) |-> places[k][1]]]

\* The tensorizer after a vocabulary pass over a corpus holding "a" and "aa":
\* three Vocabulary objects of the same content.
BuiltBuilder == SubInitializerSend(ConfiguredBuilder, <<"a", " ", "a", "a">>)

BuiltTensorizer ==
    /\ heap = << MakeVocab(BuiltBuilder), MakeVocab(BuiltBuilder), MakeVocab(BuiltBuilder) >>
    /\ vocab = 1
    /\ quesVocab = 2
    /\ docVocab = 3
    /\ vocab_builder = BuiltBuilder
    /\ gen = "done"
    /\ quesInit = "done"
    /\ docInit = "done"
    /\ passes = 1
    /\ primed = TRUE
    /\ nSent = 1
    /\ offered = Range(BuiltBuilder.toks)
    /\ forwarded = 1
    /\ snap = [NoSnap EXCEPT !.builder = NoVocabBuilder]

InitNumberize ==
    /\ BuiltTensorizer
    /\ \E doc \in Texts(MaxTextLen), question \in QuesTexts, n \in 0..MaxAnswers :
          \E places \in [1..n -> AnswerPlaces(doc)] :
              row = RowOf(doc, question, places)
    /\ out = IdleOut
    /\ batch = <<>>
    /\ tens = <<>>
    /\ pc = "ready"

Numberize ==
    /\ pc = "ready"
    /\ IF NumberizeAsserts(heap, vocab, quesVocab, docVocab) = "ok"
       THEN /\ out' = NumberizeRow(row, heap[quesVocab], heap[docVocab])
            /\ pc' = "numberized"
       ELSE /\ pc' = NumberizeAsserts(heap, vocab, quesVocab, docVocab)
            /\ UNCHANGED out
    /\ UNCHANGED << passVars, row, batch, tens >>

NextNumberize == Numberize

SpecNumberize == InitNumberize /\ [][NextNumberize]_vars

(***************************************************************************)
(* SquadTensorizer.tensorize                                               *)
(***************************************************************************)

MaxOf(S) == CHOOSE m \in S : \A x \in S : x <= m

\* pytext.data.utils.pad_and_tensorize on a batch of lists: every list is
\* extended with pad_token to the length of the longest.
PadAndTensorize(lists, pad_token) ==
    LET width == MaxOf({Len(lists[i]) : i \in 1..Len(lists)})
    IN [i \in 1..Len(lists) |->
           [j \in 1..width |-> IF j <= Len(lists[i]) THEN lists[i][j] ELSE pad_token]]

\* pad_and_tensorize on a batch of numbers: the numbers, as one vector.
TensorizeScalars(xs) == xs

\* (tokens == pad_index).byte()
MaskOfNonPad(tokens, pad_index) ==
    [i \in 1..Len(tokens) |->
        [j \in 1..Len(tokens[i]) |-> IF tokens[i][j] = pad_index THEN 0 ELSE 1]]
PadMask(tokens, pad_index) ==
    [i \in 1..Len(tokens) |->
        [j \in 1..Len(tokens[i]) |-> IF tokens[i][j] = pad_index THEN 1 ELSE 0]]

Column(b, f) == [i \in 1..Len(b) |-> b[i][f]]

\* tensorize: zip(*batch), the padding, the masks and the returned tuple
TensorizeQuestionFirst(b, pad_index) ==
    LET doc_tokens == PadAndTensorize(Column(b, "doc_tokens"), pad_index)
        ques_tokens == PadAndTensorize(Column(b, "ques_tokens"), pad_index)
    IN << ques_tokens,
          TensorizeScalars(Column(b, "ques_len")),
          PadMask(ques_tokens, pad_index),
          doc_tokens,
          TensorizeScalars(Column(b, "doc_len")),
          PadMask(doc_tokens, pad_index),
          PadAndTensorize(Column(b, "answer_start"), SPAN_PAD_IDX),
          PadAndTensorize(Column(b, "answer_end"), SPAN_PAD_IDX) >>
Tensorize(b, pad_index) ==
    LET doc_tokens == PadAndTensorize(Column(b, "doc_tokens"), pad_index)
        doc_mask == PadMask(doc_tokens, pad_index)
        ques_tokens == PadAndTensorize(Column(b, "ques_tokens"), pad_index)
        ques_mask == PadMask(ques_tokens, pad_index)
        answer_start_idx == PadAndTensorize(Column(b, "answer_start"), SPAN_PAD_IDX)
        answer_end_idx == PadAndTensorize(Column(b, "answer_end"), SPAN_PAD_IDX)
    IN << doc_tokens,
          TensorizeScalars(Column(b, "doc_len")),
          doc_mask,
          ques_tokens,
          TensorizeScalars(Column(b, "ques_len")),
          ques_mask,
          answer_start_idx,
          answer_end_idx >>

\* Token ids of a batch example: 0 and 1 are the pad and unknown ids of the
\* vocabularies modelled (in either order), so an id may or may not be the pad id.
TokIds == {0, 1}

IdLists(n) == UNION {[1..k -> TokIds] : k \in 0..n}

\* The question ids of a batch example: no token or one token.
QuesIdLists == { <<>>, <<0>>, <<1>> }

\* The span lists numberize returns for a document of doc_len tokens: the
\* single pad pair, one located answer, or two answers located in part.
SpanPairs(doc_len) ==
    IF doc_len = 0
    THEN { << << SPAN_PAD_IDX >>, << SPAN_PAD_IDX >> >> }
    ELSE { << << SPAN_PAD_IDX >>, << SPAN_PAD_IDX >> >>,
           << << 0 >>, << doc_len - 1 >> >>,
           << << 0, SPAN_PAD_IDX >>, << SPAN_PAD_IDX, doc_len - 1 >> >> }

\* What numberize returns: the document and question ids with their lengths
\* and the two span lists.
Examples ==
    UNION { { [doc_tokens |-> d, doc_len |-> Len(d),
               ques_tokens |-> q, ques_len |-> Len(q),
               answer_start |-> sp[1], answer_end |-> sp[2]]
              : q \in QuesIdLists, sp \in SpanPairs(Len(d)) }
            : d \in IdLists(MaxBatchSeqLen) }

Batches == UNION {[1..n -> Examples] : n \in 1..MaxBatch}

\* The tensorizer as from_config with a WordPieceTokenizer leaves it.
WordPieceTensorizer ==
    /\ FromConfigWordPiece
    /\ vocab_builder = NoVocabBuilder
    /\ gen = "none"
    /\ quesInit = "none"
    /\ docInit = "none"
    /\ passes = 0
    /\ primed = FALSE
    /\ nSent = 0
    /\ offered = {}
    /\ forwarded = 0
    /\ snap = NoSnap

InitTensorize ==
    /\ BuiltTensorizer \/ WordPieceTensorizer
    /\ row = IdleRow
    /\ out = IdleOut
    /\ batch \in Batches
    /\ tens = <<>>
    /\ pc = "ready"

TensorizeBatch ==
    /\ pc = "ready"
    /\ batch # <<>>
    /\ tens' = Tensorize(batch, GetPadIndex(heap[vocab]))
    /\ pc' = "tensorized"
    /\ UNCHANGED << passVars, row, out, batch >>

NextTensorize == TensorizeBatch

SpecTensorize == InitTensorize /\ [][NextTensorize]_vars

(***************************************************************************)
(* Properties of the vocabulary pass (specification Spec)                  *)
(***************************************************************************)
Content(ref) == heap[ref]

PassCompleted == gen = "done" /\ primed

\* C1: a pass begun with no vocabulary, fed any rows and closed, leaves a
\* vocabulary in which the pad symbol has id 0, the unknown symbol id 1, and
\* every token of both columns of every row sent is present.
C1_PassBuildsSharedVocabulary ==
    (PassCompleted /\ snap.vocab = None) =>
        /\ vocab # None
        /\ GetPadIndex(Content(vocab)) = 0
        /\ GetUnkIndex(Content(vocab)) = 1
        /\ \A t \in offered : IndexOf(Content(vocab), t) >= 2

C1_Witness ==
    /\ PassCompleted
    /\ snap.vocab = None
    /\ nSent = 2
    /\ Cardinality(offered) >= 3

\* C2: a pass begun when a vocabulary exists is a no-op: rows are taken at the
\* bare yield, none is forwarded, no sub-initializer and no builder is made,
\* and the three vocabulary references and the objects are as at the beginning.
C2_ExistingVocabularyNoOp ==
    (primed /\ snap.vocab # None) =>
        /\ gen \in {"noop", "done"}
        /\ forwarded = 0
        /\ quesInit = "none"
        /\ docInit = "none"
        /\ vocab_builder = snap.builder
        /\ vocab = snap.vocab
        /\ docVocab = snap.docVocab
        /\ quesVocab = snap.quesVocab
        /\ heap = snap.heap

C2_Witness ==
    /\ PassCompleted
    /\ snap.vocab # None
    /\ passes = 2
    /\ Len(heap) = 3
    /\ nSent = 2
    /\ offered # {}

C4_PassLeavesEqualSizes ==
    PassCompleted =>
        /\ quesInit # "suspended"
        /\ docInit # "suspended"
        /\ (snap.vocab = None => (quesInit = "done" /\ docInit = "done"))
        /\ NumberizeAsserts(heap, vocab, quesVocab, docVocab) = "ok"

C4_Witness ==
    /\ PassCompleted
    /\ snap.vocab = None
    /\ quesInit = "done"
    /\ docInit = "done"
    /\ nSent >= 1
    /\ Len(Content(vocab)) = Len(Content(docVocab))
    /\ Len(Content(vocab)) >= 3

(***************************************************************************)
(* Properties of numberize (specification SpecNumberize)                   *)
(***************************************************************************)
\* The document tokens numberize keeps, with their character offsets.
Kept == SubSeq(Tokenize(row.doc), 1, Min(MaxDocSeqLen, Len(Tokenize(row.doc))))

NumAnswers == Len(row.answer_starts)

EndOffset(k) == row.answer_starts[k] + Len(row.answers[k])

StartsToken(kept, k, i) == kept[i].start = row.answer_starts[k]
EndsToken(kept, k, j) == kept[j].end = EndOffset(k)

StartUnmapped(kept, k) == \A i \in 1..Len(kept) : ~StartsToken(kept, k, i)
EndUnmapped(kept, k) == \A j \in 1..Len(kept) : ~EndsToken(kept, k, j)

PadPair == out.answer_start = << SPAN_PAD_IDX >> /\ out.answer_end = << SPAN_PAD_IDX >>

\* C5: with no answers, or every start unmapped, or every end unmapped,
\* numberize returns [SPAN_PAD_IDX] for both span lists, and does not raise.
C5_DegenerateRowsCollapse ==
    /\ pc \in {"ready", "numberized"}
    /\ pc = "numberized" =>
        LET kept == Kept
        IN (\/ NumAnswers = 0
            \/ \A k \in 1..NumAnswers : StartUnmapped(kept, k)
            \/ \A k \in 1..NumAnswers : EndUnmapped(kept, k))
           => PadPair

C5_Witness ==
    /\ pc = "numberized"
    /\ NumAnswers = 2
    /\ \E k \in 1..NumAnswers : ~StartUnmapped(Kept, k)
    /\ \A k \in 1..NumAnswers : EndUnmapped(Kept, k)
    /\ PadPair

\* C6: an answer that starts where kept document token i starts and ends
\* where kept token j ends gets start index i and end index j, and the
\* characters from the start of token i to the end of token j are the answer.
C6_AlignedAnswerIsLocated ==
    pc = "numberized" =>
        LET kept == Kept
        IN \A k \in 1..NumAnswers : \A i, j \in 1..Len(kept) :
               (StartsToken(kept, k, i) /\ EndsToken(kept, k, j)) =>
                   /\ Len(out.answer_start) = NumAnswers
                   /\ Len(out.answer_end) = NumAnswers
                   /\ out.answer_start[k] = i - 1
                   /\ out.answer_end[k] = j - 1
                   /\ SubSeq(row.doc, kept[i].start + 1, kept[j].end) = row.answers[k]

C6_Witness ==
    /\ pc = "numberized"
    /\ NumAnswers = 2
    /\ Len(Kept) = 2
    /\ StartsToken(Kept, 2, 1) /\ EndsToken(Kept, 2, 2)
    /\ out.answer_start = << SPAN_PAD_IDX, 0 >>
    /\ out.answer_end[2] = 1

\* C7: every returned span entry is SPAN_PAD_IDX or an index of a returned
\* document token; an offset matching no kept token gives SPAN_PAD_IDX;
\* numberize does not raise; SPAN_PAD_IDX is no token index.
C7_SpanEntriesAreTokenIndicesOrPad ==
    /\ pc \in {"ready", "numberized"}
    /\ pc = "numberized" =>
        LET kept == Kept
        IN /\ out.doc_len = Len(out.doc_tokens)
           /\ SPAN_PAD_IDX \notin 0..(out.doc_len - 1)
           /\ \A x \in Range(out.answer_start) \cup Range(out.answer_end) :
                  x = SPAN_PAD_IDX \/ x \in 0..(out.doc_len - 1)
           /\ ~PadPair =>
                  \A k \in 1..NumAnswers :
                      /\ StartUnmapped(kept, k) => out.answer_start[k] = SPAN_PAD_IDX
                      /\ EndUnmapped(kept, k) => out.answer_end[k] = SPAN_PAD_IDX

C7_Witness ==
    /\ pc = "numberized"
    /\ Len(Tokenize(row.doc)) > MaxDocSeqLen
    /\ NumAnswers = 2
    /\ row.answer_starts[1] = Tokenize(row.doc)[MaxDocSeqLen + 1].start
    /\ out.answer_start = << SPAN_PAD_IDX, 1 >>
    /\ out.answer_end[1] = SPAN_PAD_IDX
    /\ out.answer_end[2] = 1

PadId == GetPadIndex(Content(vocab))

\* Matrix m holds, row by row, the lists of field f of the batch, each
\* followed by the fill value up to the longest list.
IsPadded(m, f, fill) ==
    /\ Len(m) = Len(batch)
    /\ \A i \in 1..Len(batch) :
           /\ Len(m[i]) = MaxOf({Len(batch[x][f]) : x \in 1..Len(batch)})
           /\ \A j \in 1..Len(m[i]) :
                  m[i][j] = IF j <= Len(batch[i][f]) THEN batch[i][f][j] ELSE fill

IsMask(m, of) ==
    /\ Len(m) = Len(of)
    /\ \A i \in 1..Len(of) :
           /\ Len(m[i]) = Len(of[i])
           /\ \A j \in 1..Len(of[i]) : m[i][j] \in {0, 1}

\* C8: tensorize returns eight outputs in the order document tokens, document
\* lengths, document pad mask, question tokens, question lengths, question
\* pad mask, answer starts, answer ends; the padded document tokens are first.
C8_OutputOrder ==
    pc = "tensorized" =>
        /\ Len(tens) = 8
        /\ IsPadded(tens[1], "doc_tokens", PadId)
        /\ tens[2] = [i \in 1..Len(batch) |-> batch[i].doc_len]
        /\ IsMask(tens[3], tens[1])
        /\ IsPadded(tens[4], "ques_tokens", PadId)
        /\ tens[5] = [i \in 1..Len(batch) |-> batch[i].ques_len]
        /\ IsMask(tens[6], tens[4])
        /\ IsPadded(tens[7], "answer_start", SPAN_PAD_IDX)
        /\ IsPadded(tens[8], "answer_end", SPAN_PAD_IDX)

C8_Witness ==
    /\ pc = "tensorized"
    /\ Len(batch) = 2
    /\ batch[1].doc_tokens # batch[1].ques_tokens
    /\ batch[1].doc_len # batch[2].doc_len
    /\ batch[1].ques_len = batch[2].ques_len
    /\ batch[1].answer_start # batch[1].answer_end
    /\ Len(batch[1].answer_start) # Len(batch[2].answer_start)
    /\ tens[1] # tens[4]
    /\ tens[7] # tens[8]

\* C9: in every batch row the document mask and the question mask are 1 at the
\* positions whose padded token id is the vocabulary's pad id and 0 elsewhere.
C9_MasksMarkPadId ==
    pc = "tensorized" =>
        /\ IsMask(tens[3], tens[1])
        /\ IsMask(tens[6], tens[4])
        /\ \A i \in 1..Len(batch) :
               /\ \A j \in 1..Len(tens[1][i]) : (tens[3][i][j] = 1) <=> (tens[1][i][j] = PadId)
               /\ \A j \in 1..Len(tens[4][i]) : (tens[6][i][j] = 1) <=> (tens[4][i][j] = PadId)

C9_Witness ==
    /\ pc = "tensorized"
    /\ PadId = 1
    /\ Len(batch) = 2
    /\ tens[1] = << <<0>>, <<1>> >>
    /\ tens[3] = << <<0>>, <<1>> >>
    /\ batch[2].doc_len = 0
    /\ tens[4] = << <<1>>, <<0>> >>
    /\ tens[6] = << <<1>>, <<0>> >>
    /\ batch[1].ques_len = 1

====
